---- MODULE Spec2Model ----
(***************************************************************************)
(* Model of the CodeSendOnSave extension (src/src/extension.ts): per-file  *)
(* debounce of save notifications, the in-memory retry queue, the drain    *)
(* timer and the sequential drain pass with exponential backoff.           *)
(*                                                                         *)
(* One action stands for one callback the host's event loop runs to        *)
(* completion: the save handler, a debounce timer callback, a drain timer  *)
(* callback, the send-now command, the continuation of a drain pass after  *)
(* the awaited network exchange, the configuration listener, the teardown  *)
(* hook.  Microtask continuations run before any other callback, so the    *)
(* completion of one send and the start of the next send of the same pass  *)
(* are one step.                                                           *)
(***************************************************************************)
EXTENDS Integers, Sequences, FiniteSets

\* ---------------------------------------------------------------- bounds
\* Work done in one run: a task created counts 2, a failed exchange counts 1
\* (one task may fail five times, three tasks may be created and fail once).
MaxWork == 7
\* Number of drain timers that may be live at once.
MaxDrainTimers == 2
\* Number of tasks created in one run of the debounce specification.
MaxEmitted == 2

\* ------------------------------------------------------ program constants
maxAttempts == 5
BackoffCapMs == 60000
BackoffBaseMs == 500
DefaultDebounceMs == 300

\* ------------------------------------------------------------ input sets
\* Documents the host may report as saved: three files, one of them under
\* node_modules, and one untitled buffer.
UriA == [scheme |-> "file", path |-> <<"src", "a.py">>]
UriB == [scheme |-> "file", path |-> <<"src", "b.js">>]
UriN == [scheme |-> "file", path |-> <<"node_modules", "n.js">>]
UriU == [scheme |-> "untitled", path |-> <<"Untitled-1">>]
Uris == {UriA, UriB, UriN, UriU}
FileUris == {u \in Uris : u.scheme = "file"}

\* Text a document can hold.
Contents == {"v1", "v2"}

\* Glob patterns: dir(s) is "**/s/**", base(s) is the slash-free pattern "s".
DirPattern(s) == [form |-> "dir", seg |-> s]
BasePattern(s) == [form |-> "base", seg |-> s]
DefaultExclude == {DirPattern("node_modules"), DirPattern(".git")}
ExcludeChoices == {DefaultExclude, DefaultExclude \cup {BasePattern("a.py")}}
DebounceChoices == {DefaultDebounceMs}

\* Outcomes of one network exchange: a 2xx response whose body decodes (with
\* an analysis, with an error field, with neither), and the three ways the
\* try block throws.
SuccessOutcomes == {"analysis", "remoteError", "empty"}
FailureOutcomes == {"network", "http", "decode"}
Outcomes == SuccessOutcomes \cup FailureOutcomes

\* Faulty variant: a 200 response without an analysis is thrown to the catch.
ReachesCatchUnlessAnalysis(o) == o # "analysis"

\* The exchange with outcome o throws inside the try block of sendToBackend.
ReachesCatch(o) == o \in FailureOutcomes

\* let timer: NodeJS.Timeout | undefined, and a key the pending map lacks.
NoTimer == 0

\* Timeout handles.  A debounce timer of the k-th uri takes the first free
\* handle from k upwards, a drain timer the first free one above those.
UriIndex(u) == CHOOSE k \in 1 .. 4 : <<UriA, UriB, UriN, UriU>>[k] = u
FirstDrainHandle == Cardinality(Uris) + 1
Handles == 1 .. (2 * Cardinality(Uris) + MaxDrainTimers + 2)

VARIABLES
    cfg,             \* the configuration store: enabled, debounceMs, exclude
    excludeMatchers, \* the compiled exclude patterns
    docText,         \* current text of each file document (doc.getText())
    task,            \* every SendTask object created, by creation order
    queue,           \* the retry queue: task ids
    timer,           \* handle of the tracked drain timer, or NoTimer
    pending,         \* debounce map: uri -> handle, NoTimer when absent
    timers,          \* live timers of the event loop
    passes,          \* drain passes suspended at an awaited send
    disposed,        \* whether the teardown hook has run
    failures,        \* history: number of failed exchanges so far
    lastOutcome,     \* history: outcome of the exchange that ended last
    bursts,          \* history: per uri, number of bursts of accepted saves
    latest           \* history: handle made by the latest schedule request

vars == <<cfg, excludeMatchers, docText, task, queue, timer, pending, timers,
          passes, disposed, failures, lastOutcome, bursts, latest>>

\* ------------------------------------------------------------- helpers
Min(a, b) == IF a <= b THEN a ELSE b

Range(s) == {s[i] : i \in 1 .. Len(s)}

\* Minimatch(p, {dot: true, matchBase: true}).match(fsPath)
Match(p, path) ==
    IF p.form = "dir"
        THEN \E i \in 1 .. (Len(path) - 1) : path[i] = p.seg
        ELSE path[Len(path)] = p.seg

\* settings.exclude().map(p => new Minimatch(p, ...))
Compile(patterns) == patterns

isExcluded(uri) == \E m \in excludeMatchers : Match(m, uri.path)

DrainTimers == {t \in timers : t.kind = "drain"}
DebounceTimers == {t \in timers : t.kind = "debounce"}

\* setTimeout returns a handle equal to no handle in use.
FreshHandle(used, from) ==
    CHOOSE h \in Handles :
        /\ h >= from /\ h \notin used
        /\ \A g \in Handles : (g >= from /\ g \notin used) => h <= g

\* Faulty variant: the pending timer is not cancelled.
ClearTimeoutNoop(ts, h) == ts

\* clearTimeout(h): the timer with handle h, if live, never fires.
ClearTimeout(ts, h) == {t \in ts : t.id # h}

\* Faulty variant: the exponent is the attempt count before the increment.
BackoffPreIncrement(attempts) ==
    Min(BackoffCapMs, (BackoffBaseMs * 2 ^ attempts) \div 2)

\* Math.min(60_000, 500 * Math.pow(2, attempts))
Backoff(attempts) == Min(BackoffCapMs, BackoffBaseMs * 2 ^ attempts)

\* Faulty variant: every retry is scheduled after the same delay.
RetryDelayFlat(attempts) == 2 * BackoffBaseMs

\* The delay requeue passes to scheduleQueueProcessor.
RetryDelay(attempts) == Backoff(attempts)

\* Faulty variant: the guard lets a task with maxAttempts attempts back in.
GivesUpLate(attempts) == attempts > maxAttempts

\* requeue's guard: the task is given up.
GivesUp(attempts) == attempts >= maxAttempts

\* setTimeout(processQueue, delayMs)
DrainTimer(h, delayMs) == [id |-> h, kind |-> "drain", delay |-> delayMs]

\* scheduleQueueProcessor(delayMs) when ts are live: the timers it keeps, the
\* handle of the timer it starts, and the live timers afterwards.
KeptDrain(ts) == IF timer # NoTimer THEN ClearTimeout(ts, timer) ELSE ts
NewDrainHandle(ts) ==
    FreshHandle({t.id : t \in KeptDrain(ts)} \cup {pending[u] : u \in Uris},
                FirstDrainHandle)

\* Faulty variant: the old timer is cleared and no new one is started.
ClearedOnly(ts, delayMs) == KeptDrain(ts)

Scheduled(ts, delayMs) ==
    KeptDrain(ts) \cup {DrainTimer(NewDrainHandle(ts), delayMs)}

\* The handle of the latest schedule request, while its timer is live.
Latest(h, ts) == IF h \in {t.id : t \in ts} THEN h ELSE NoTimer

\* The bounds allow one more schedule request, task, failed exchange.
RoomToSchedule(ts) ==
    Cardinality({t \in KeptDrain(ts) : t.kind = "drain"}) < MaxDrainTimers
Work == 2 * Len(task) + failures
RoomForTask == Work + 2 <= MaxWork
RoomForFailure == Work + 1 <= MaxWork

\* Faulty variant: a task is dropped when the queue already holds one.
PushIfEmpty(q, id) == IF Len(q) = 0 THEN Append(q, id) ELSE q

\* queue.push(task)
Push(q, id) == Append(q, id)

\* ---------------------------------------------------------------- Init
Init ==
    /\ cfg = [enabled |-> TRUE, debounceMs |-> DefaultDebounceMs,
              exclude |-> DefaultExclude]
    /\ excludeMatchers = Compile(DefaultExclude)
    /\ docText = [u \in FileUris |-> "v1"]
    /\ task = <<>>
    /\ queue = <<>>
    /\ timer = NoTimer
    /\ pending = [u \in Uris |-> NoTimer]
    /\ timers = {}
    /\ passes = {}
    /\ disposed = FALSE
    /\ failures = 0
    /\ lastOutcome = "none"
    /\ bursts = [u \in Uris |-> 0]
    /\ latest = NoTimer

\* ------------------------------------------------------------- actions
\* onDidChangeConfiguration listener.  The event reports whether it touches
\* the "codeSendOnSave" section; the settings themselves are root-level keys.
ConfigChange(en, ms, ex, affects) ==
    /\ ~disposed
    /\ cfg' = [enabled |-> en, debounceMs |-> ms, exclude |-> ex]
    /\ excludeMatchers' = IF affects THEN Compile(ex) ELSE excludeMatchers
    /\ UNCHANGED <<docText, task, queue, timer, pending, timers, passes,
                   disposed, failures, lastOutcome, bursts, latest>>

\* The user types in an open document: doc.getText() changes.
Edit(u, c) ==
    /\ c # docText[u]
    /\ docText' = [docText EXCEPT ![u] = c]
    /\ UNCHANGED <<cfg, excludeMatchers, task, queue, timer, pending, timers,
                   passes, disposed, failures, lastOutcome, bursts, latest>>

\* onDidSaveTextDocument handler.
Save(u) ==
    /\ ~disposed
    /\ IF ~cfg.enabled \/ u.scheme # "file" \/ isExcluded(u)
          THEN UNCHANGED <<pending, timers, bursts>>
          ELSE LET kept == IF pending[u] # NoTimer
                               THEN ClearTimeout(timers, pending[u])
                               ELSE timers
                   h == FreshHandle({t.id : t \in kept} \cup {timer} \cup
                                    {pending[v] : v \in Uris \ {u}},
                                    UriIndex(u))
               IN /\ timers' = kept \cup
                        {[id |-> h, kind |-> "debounce", uri |-> u,
                          delay |-> cfg.debounceMs, text |-> docText[u]]}
                  /\ pending' = [pending EXCEPT ![u] = h]
                  /\ bursts' = IF pending[u] = NoTimer
                                   THEN [bursts EXCEPT ![u] = @ + 1]
                                   ELSE bursts
    /\ UNCHANGED <<cfg, excludeMatchers, docText, task, queue, timer, passes,
                   disposed, failures, lastOutcome, latest>>

\* Faulty variant: the drain after a push waits the debounce delay again.
ImmediateAfterDebounce == DefaultDebounceMs

\* scheduleQueueProcessor(0) of the debounce timer callback.
Immediate == 0

\* Faulty variant: the callback leaves its entry in the map.
PendingKept(pend, u) == pend

\* pending.delete(key)
PendingDelete(pend, u) == [pend EXCEPT ![u] = NoTimer]

\* The debounce timer callback of the save handler.
DebounceFire(t) ==
    /\ t \in DebounceTimers
    /\ RoomForTask
    /\ RoomToSchedule(timers \ {t})
    /\ LET id == Len(task) + 1
           h == NewDrainHandle(timers \ {t})
       IN /\ pending' = PendingDelete(pending, t.uri)
          /\ task' = Append(task, [uri |-> t.uri, content |-> docText[t.uri],
                                   attempts |-> 0])
          /\ queue' = Push(queue, id)
          /\ timers' = Scheduled(timers \ {t}, Immediate)
          /\ timer' = h
          /\ latest' = h
    /\ UNCHANGED <<cfg, excludeMatchers, docText, passes, disposed, failures,
                   lastOutcome, bursts>>

\* queue.splice(0, queue.length): the removed elements.
Snapshot(q) == q

\* Faulty variant: the snapshot is a copy and the queue keeps its elements.
RemainingAll(q) == q

\* queue.splice(0, queue.length): what is left in the queue.
Remaining(q) == <<>>

\* Faulty variant: the loop walks on into the live queue behind the snapshot.
LoopArrayLive(p, q) == p.tasks \o q

\* for (const t of tasks): the array the loop of pass p walks while the live
\* queue is q.
LoopArray(p, q) == p.tasks

\* Faulty variant: the loop skips every other entry.
SkipIndex(i) == i + 2

\* The loop's position after the entry at position i.
NextIndex(i) == i + 1

\* Faulty variant: a drain that finds the queue empty schedules another one.
EmptyDrainPolls(ts) ==
    /\ timer' = NewDrainHandle(ts)
    /\ timers' = Scheduled(ts, 0)
    /\ UNCHANGED <<queue, passes>>

\* processQueue on an empty queue: timer = undefined, then return.
EmptyDrain(ts) ==
    /\ timer' = NoTimer
    /\ timers' = ts
    /\ UNCHANGED <<queue, passes>>

\* processQueue up to its first await; ts are the timers left live.
ProcessQueue(ts) ==
    /\ latest' = Latest(latest, ts)
    /\ IF Len(queue) = 0
          THEN EmptyDrain(ts)
          ELSE LET snap == Snapshot(queue)
               IN /\ timer' = NoTimer
                  /\ timers' = ts
                  /\ queue' = Remaining(queue)
                  /\ passes' = passes \cup
                        {[tasks |-> snap, i |-> 1, sent |-> <<snap[1]>>]}
    /\ UNCHANGED <<cfg, excludeMatchers, docText, task, pending, disposed,
                   failures, lastOutcome, bursts>>

\* The drain timer callback.
DrainFire(t) ==
    /\ t \in DrainTimers
    /\ ProcessQueue(timers \ {t})

\* Faulty variant: the command leaves the queue to a pending drain timer.
SendNowUnlessScheduled ==
    /\ ~disposed
    /\ timer = NoTimer
    /\ ProcessQueue(timers)

\* The codeSendOnSave.sendNow command.
SendNow ==
    /\ ~disposed
    /\ ProcessQueue(timers)

\* The awaited exchange of pass p ends with outcome o: the rest of
\* sendToBackend (try or catch, requeue) and the loop's next iteration.
SendComplete(p, o) ==
    /\ p \in passes
    /\ LET id == p.sent[Len(p.sent)]
           ok == ~ReachesCatch(o)
           att == IF ok THEN 0 ELSE task[id].attempts + 1
           back == ~ok /\ ~GivesUp(att)
           h == NewDrainHandle(timers)
           q1 == IF back THEN Push(queue, id) ELSE queue
           arr == LoopArray(p, q1)
           j == NextIndex(p.i)
       IN /\ ~ok => RoomForFailure
          /\ back => RoomToSchedule(timers)
          /\ failures' = IF ok THEN failures ELSE failures + 1
          /\ lastOutcome' = o
          /\ task' = [task EXCEPT ![id].attempts = att]
          /\ queue' = q1
          /\ timers' = IF back THEN Scheduled(timers, RetryDelay(att)) ELSE timers
          /\ timer' = IF back THEN h ELSE timer
          /\ latest' = IF back THEN h ELSE latest
          /\ passes' = (passes \ {p}) \cup
                IF j <= Len(arr)
                    THEN {[p EXCEPT !.i = j, !.sent = Append(@, arr[j])]}
                    ELSE {}
    /\ UNCHANGED <<cfg, excludeMatchers, docText, pending, disposed, bursts>>

\* The teardown hook pushed onto context.subscriptions; the host disposes the
\* save listener, the configuration listener and the command with it.
Dispose ==
    /\ ~disposed
    /\ disposed' = TRUE
    /\ timers' = IF timer # NoTimer THEN ClearTimeout(timers, timer) ELSE timers
    /\ latest' = Latest(latest, timers')
    /\ UNCHANGED <<cfg, excludeMatchers, docText, task, queue, timer, pending,
                   passes, failures, lastOutcome, bursts>>

Next ==
    \/ \E en \in BOOLEAN, ms \in DebounceChoices, ex \in ExcludeChoices,
          affects \in BOOLEAN : ConfigChange(en, ms, ex, affects)
    \/ \E u \in FileUris, c \in Contents : Edit(u, c)
    \/ \E u \in Uris : Save(u)
    \/ \E t \in timers : DebounceFire(t)
    \/ \E t \in timers : DrainFire(t)
    \/ SendNow
    \/ \E p \in passes, o \in Outcomes : SendComplete(p, o)
    \/ Dispose

Spec == Init /\ [][Next]_vars

\* Delivery under a fixed configuration and documents nobody edits.
NextDelivery ==
    \/ \E u \in Uris \ {UriB} : Save(u)
    \/ \E t \in timers : DebounceFire(t)
    \/ \E t \in timers : DrainFire(t)
    \/ SendNow
    \/ \E p \in passes, o \in Outcomes : SendComplete(p, o)
    \/ Dispose

SpecDelivery == Init /\ [][NextDelivery]_vars

\* Delivery while the extension stays active, with one kind of success and
\* one kind of failure: the event loop runs every drain timer that stays
\* live, and every exchange ends.
ActiveOutcomes == {"analysis", "network"}

NextActive ==
    \/ Save(UriA)
    \/ \E t \in timers : DebounceFire(t)
    \/ \E t \in timers : DrainFire(t)
    \/ SendNow
    \/ \E p \in passes, o \in ActiveOutcomes : SendComplete(p, o)

SpecActive ==
    /\ Init /\ [][NextActive]_vars
    /\ WF_vars(\E t \in timers : DrainFire(t))
    /\ WF_vars(\E p \in passes, o \in ActiveOutcomes : SendComplete(p, o))

\* Debounce and exclusion in front of a backend that always answers.
NextDebounce ==
    \/ \E en \in BOOLEAN, ms \in DebounceChoices, ex \in ExcludeChoices,
          affects \in BOOLEAN : ConfigChange(en, ms, ex, affects)
    \/ \E c \in Contents : Edit(UriA, c)
    \/ \E u \in Uris : Save(u)
    \/ \E t \in timers : Len(task) < MaxEmitted /\ DebounceFire(t)
    \/ \E t \in timers : DrainFire(t)
    \/ \E p \in passes : SendComplete(p, "analysis")
    \/ Dispose

SpecDebounce == Init /\ [][NextDebounce]_vars

TypeOK ==
    /\ Work <= MaxWork
    /\ timer \in Handles \cup {NoTimer}
    /\ lastOutcome \in Outcomes \cup {"none"}

\* ------------------------------------------------------ derived notions
\* The task whose exchange pass p awaits, and the snapshot entries still to send.
InFlight(p) == p.sent[Len(p.sent)]
Waiting(p) == {p.tasks[k] : k \in (p.i + 1) .. Len(p.tasks)}
Held(p) == {InFlight(p)} \cup Waiting(p)

\* Task id is neither queued nor in the hands of a pass.
Terminal(id) ==
    /\ id \in 1 .. Len(task)
    /\ id \notin Range(queue)
    /\ \A p \in passes : id \notin Held(p)
Delivered(id) == Terminal(id) /\ task[id].attempts = 0
Abandoned(id) == Terminal(id) /\ task[id].attempts = 5

\* The exchange of pass p ends in this step.
Completed(p) == p \in passes /\ p \notin passes'

\* Send attempt number one of task id has started.
Started(id) ==
    ~ /\ task[id].attempts = 0
      /\ \/ id \in Range(queue)
         \/ \E p \in passes : id \in Waiting(p)

Emitted(u) == Cardinality({id \in 1 .. Len(task) : task[id].uri = u})

IsPending(u) == IF pending[u] # NoTimer THEN 1 ELSE 0

\* ----------------------------------------------------------------- C1
\* Every burst of accepted saves of one uri has produced exactly one task
\* once its timer has fired, and none before.
BurstsAccounted == \A u \in Uris : bursts[u] = Emitted(u) + IsPending(u)

\* The step creates a task: it is the callback of the timer the last accepted
\* save of that uri stored in the pending map, and it pushes the task.
EmittedByLastTimer ==
    Len(task') = Len(task) + 1 =>
        LET id == Len(task')
            u == task'[id].uri
        IN /\ pending[u] # NoTimer /\ pending'[u] = NoTimer
           /\ \E t \in timers \ timers' : t.kind = "debounce" /\ t.id = pending[u]
           /\ task'[id].attempts = 0
           /\ queue' = Append(queue, id)

\* C1 as stated: a burst of saves of one key pushes exactly one task, only
\* after the timer of the last save fires, and the task's content is the
\* content the document had at the last notification.
C1_ContentOfLastNotification ==
    [][/\ BurstsAccounted'
       /\ EmittedByLastTimer
       /\ Len(task') = Len(task) + 1 =>
             \E t \in timers \ timers' :
                 /\ t.kind = "debounce"
                 /\ t.id = pending[t.uri]
                 /\ task'[Len(task')].uri = t.uri
                 /\ task'[Len(task')].content = t.text]_vars

\* C1 as amended: a burst of accepted saves of one key pushes exactly one
\* task, only after the timer of the last accepted save fires, and the task's
\* content is the document's text at the moment that timer fires.
C1_BurstEmitsOneTask ==
    [][/\ BurstsAccounted'
       /\ EmittedByLastTimer
       /\ Len(task') = Len(task) + 1 =>
             task'[Len(task')].content = docText[task'[Len(task')].uri]]_vars

\* Two bursts of a.py have each emitted their task, the second after an edit.
C1_Witness ==
    /\ bursts[UriA] = 2 /\ Emitted(UriA) = 2
    /\ task[2].content = "v2"

\* ----------------------------------------------------------------- C2
\* C2: at most one send is in flight in every reachable state.
C2_OneSendInFlight == Cardinality(passes) <= 1

\* ----------------------------------------------------------------- C3
\* C3: no task in the queue or in a pass has a path that a pattern of the
\* current exclude setting matches.
C3_NoExcludedTaskQueued ==
    \A id \in Range(queue) \cup UNION {Held(p) : p \in passes} :
        ~ \E pat \in cfg.exclude : Match(pat, task[id].uri.path)

\* ----------------------------------------------------------------- C4
\* C4: a failed exchange (network, status or decode failure) adds exactly 1
\* to the attempts of the task sent and appends it to the queue tail iff the
\* new count is below 5; queued tasks have attempts 0..4; a task abandoned
\* at 5 attempts stays out of the queue and out of every pass.
C4_RetryPolicy ==
    [][/\ \A p \in passes :
             (Completed(p) /\ lastOutcome' \in {"network", "http", "decode"}) =>
                 LET id == InFlight(p)
                 IN /\ task'[id].attempts = task[id].attempts + 1
                    /\ \A other \in (1 .. Len(task)) \ {id} :
                          task'[other] = task[other]
                    /\ queue' = IF task'[id].attempts < 5
                                    THEN Append(queue, id)
                                    ELSE queue
       /\ \A id \in Range(queue') : task'[id].attempts \in 0 .. 4
       /\ \A id \in 1 .. Len(task) : Abandoned(id) => Abandoned(id)']_vars

\* A task has failed five times and is gone.
C4_Witness == \E id \in 1 .. Len(task) : Abandoned(id)

C6_PassSendsItsSnapshot ==
    [][/\ \A p \in passes' :
             /\ Len(p.sent) <= Len(p.tasks)
             /\ Range(p.sent) \subseteq Range(p.tasks)
             /\ Cardinality(Range(p.sent)) = Len(p.sent)
             /\ Range(queue') \cap Held(p) = {}
       /\ Range(queue) \ Range(queue') # {} =>
             /\ queue' = <<>>
             /\ \E p \in passes' \ passes : p.tasks = queue /\ Len(p.sent) = 1
       /\ \A p \in passes :
             (\A q \in passes' : q.tasks # p.tasks) => p.sent = p.tasks]_vars

\* A pass has moved on to its second entry while the first one, which
\* failed, waits in the queue.
C6_Witness ==
    \E p \in passes : Len(p.sent) = 2 /\ p.sent[1] \in Range(queue)

\* ----------------------------------------------------------------- C7
\* C7: a pass sends its snapshot, which is the queue's content in queue
\* order, front to back, and starts the send of an entry only in the step
\* in which the exchange of the entry before it has ended.
C7_SnapshotOrder ==
    [][\A p \in passes' :
          /\ p.sent = SubSeq(p.tasks, 1, Len(p.sent))
          /\ p \notin passes =>
                \/ /\ Len(p.sent) = 1
                   /\ p.tasks = queue
                \/ \E q \in passes :
                      /\ Completed(q)
                      /\ q.tasks = p.tasks
                      /\ p.sent = Append(q.sent, p.tasks[Len(q.sent) + 1])
                      /\ \/ task'[InFlight(q)].attempts = task[InFlight(q)].attempts + 1
                         \/ Delivered(InFlight(q))']_vars

\* A pass over three tasks is at its third entry.
C7_Witness == \E p \in passes : Len(p.tasks) = 3 /\ Len(p.sent) = 3

\* ----------------------------------------------------------------- C8
\* C8: tasks start their first send in the order of their creation.
C8_FirstSendsInPushOrder ==
    \A a, b \in 1 .. Len(task) : (a < b /\ Started(b)) => Started(a)

\* ----------------------------------------------------------------- C9
\* C9: at most one drain timer is live, and it is the one the latest
\* scheduleQueueProcessor call started.
C9_OnlyLatestDrainTimer ==
    /\ Cardinality(DrainTimers) <= 1
    /\ \A t \in DrainTimers : t.id = latest

\* ---------------------------------------------------------------- C10
\* C10: the drain timer requeue starts has delay min(60000, 500 * 2^attempts)
\* for the attempts after the increment: 1000, 2000, 4000, 8000, and 60000
\* wherever 500 * 2^attempts exceeds 60000.
C10_BackoffDelay ==
    [][/\ (failures' = failures + 1 /\ queue' # queue) =>
             LET a == task'[queue'[Len(queue')]].attempts
             IN \E t \in timers' :
                    /\ t.kind = "drain" /\ t.id = timer'
                    /\ t.delay = CASE a = 1 -> 1000
                                   [] a = 2 -> 2000
                                   [] a = 3 -> 4000
                                   [] a = 4 -> 8000
                                   [] OTHER -> 60000
       /\ \A k \in 0 .. 20 :
             Backoff(k) = IF 500 * 2 ^ k > 60000 THEN 60000 ELSE 500 * 2 ^ k]_vars

\* The tracked drain timer waits 8000 ms for a task that failed four times.
C10_Witness ==
    \E t \in DrainTimers :
        /\ t.id = timer /\ t.delay = 8000
        /\ \E id \in Range(queue) : task[id].attempts = 4

\* ---------------------------------------------------------------- C11
\* C11: while the command is registered and the queue is not empty, the
\* send-now command can run whatever drain timer is pending; its step fires
\* no timer, empties the queue and starts a pass whose snapshot is the whole
\* queue and whose first send is the queue's head.
C11_SendNowDrainsAtOnce ==
    /\ [](~disposed /\ queue # <<>> => ENABLED SendNow)
    /\ [][(SendNow /\ queue # <<>>) =>
             /\ timers' = timers
             /\ queue' = <<>>
             /\ \E p \in passes' \ passes :
                    p.tasks = queue /\ p.sent = <<queue[1]>>]_vars

\* The command has started the retry of a task while the drain timer of
\* its 1000 ms backoff is still live.
C11_Witness ==
    /\ timer = NoTimer
    /\ \E t \in DrainTimers : t.delay = 1000
    /\ \E p \in passes : task[InFlight(p)].attempts = 1

\* ---------------------------------------------------------------- C12
\* C12: once the teardown hook has run, no timer callback runs: no task is
\* created or pushed and no pass takes a snapshot; the teardown step itself
\* leaves the queue as it is and starts no send.
C12_TeardownStopsTimers ==
    [][/\ disposed =>
             /\ Len(task') = Len(task)
             /\ \A p \in passes' : \E q \in passes : q.tasks = p.tasks
       /\ (~disposed /\ disposed') =>
             /\ queue' = queue
             /\ passes' = passes]_vars

\* ---------------------------------------------------------------- C13
\* The save handler takes a save of u past its three early returns.
Accepted(u) == cfg.enabled /\ u.scheme = "file" /\ ~isExcluded(u)

C14_EmptyDrainIsNoOp ==
    [][(queue = <<>> /\ (SendNow \/ \E t \in timers : DrainFire(t))) =>
          /\ queue' = queue /\ task' = task
          /\ passes' = passes
          /\ pending' = pending /\ DebounceTimers' = DebounceTimers
          /\ timer' = timer
          /\ \/ (SendNow /\ DrainTimers' = DrainTimers)
             \/ \E t \in DrainTimers : DrainTimers' = DrainTimers \ {t}]_vars

\* The queue is empty, its only task is in flight, the command is
\* registered and a drain timer the command left behind is about to fire.
C14_Witness ==
    /\ queue = <<>> /\ ~disposed
    /\ Cardinality(passes) = 1
    /\ \E t \in DrainTimers : t.delay = 0 /\ timer = NoTimer

\* ---------------------------------------------------------------- C15
\* The live debounce timers of key u.
TimersOf(u) == {t \in DebounceTimers : t.uri = u}

\* C15: every key has at most one live debounce timer; the pending map has
\* an entry for the key exactly when that timer is live, and the entry is
\* its handle, so a timer a later save replaced is live no more.
C15_OneDebounceTimerPerKey ==
    \A u \in Uris :
        /\ Cardinality(TimersOf(u)) <= 1
        /\ pending[u] # NoTimer <=> TimersOf(u) # {}
        /\ \A t \in TimersOf(u) : t.id = pending[u]

\* a.py and b.js each have their own timer pending, a.py's for its second
\* burst, saved with the edited text.
C15_Witness ==
    /\ pending[UriA] # NoTimer /\ pending[UriB] # NoTimer
    /\ pending[UriA] # pending[UriB]
    /\ \E t \in TimersOf(UriA) : t.text = "v2"
    /\ Emitted(UriA) = 1

\* ---------------------------------------------------------------- C16
\* C16: while the extension is active, a non-empty queue has a live drain
\* timer; a task has at most 5 attempts and one with 5 is sent no more; and
\* every task created is in the end delivered or abandoned.
C16_EveryTaskEnds ==
    /\ [](queue # <<>> => DrainTimers # {})
    /\ [](\A id \in 1 .. Len(task) :
             /\ task[id].attempts <= 5
             /\ task[id].attempts = 5 => Abandoned(id))
    /\ \A id \in 1 .. (MaxWork \div 2) :
          (Len(task) >= id) ~> (Delivered(id) \/ Abandoned(id))

\* Two tasks have ended, delivered after three failed sends between them.
C16_Witness ==
    /\ Len(task) = 2 /\ failures = 3
    /\ Delivered(1) /\ Delivered(2)

\* ---------------------------------------------------------------- C17
\* C17: no task is twice in the queue or twice in a snapshot, none is both
\* in the queue and held by a pass (in flight or waiting), none is held by
\* two passes; every other task is delivered or abandoned.
C17_ExclusiveOwnership ==
    /\ Cardinality(Range(queue)) = Len(queue)
    /\ \A p \in passes :
          /\ Cardinality(Range(p.tasks)) = Len(p.tasks)
          /\ InFlight(p) \notin Waiting(p)
          /\ Range(queue) \cap Held(p) = {}
          /\ \A q \in passes \ {p} : Held(p) \cap Held(q) = {}
    /\ \A id \in 1 .. Len(task) :
          Terminal(id) => (task[id].attempts = 0 \/ task[id].attempts = 5)

\* Of one snapshot, the first task failed and is back in the queue, the
\* second is in flight and the third waits.
C17_Witness ==
    /\ queue = <<1>>
    /\ \E p \in passes : InFlight(p) = 2 /\ Waiting(p) = {3}

\* ---------------------------------------------------------------- C18
\* Pass p starts in this step.
StartsNow(p) == p \in passes' /\ \A q \in passes : q.tasks # p.tasks

\* C18 as stated: the retry of a task that has failed k times starts no
\* sooner than the backoff of k after the failure: the pass that sends it
\* first is started by the firing of a drain timer of at least that delay.
C18_BackoffRespected ==
    [][\A p \in passes' :
          (StartsNow(p) /\ task[InFlight(p)].attempts >= 1) =>
              \E t \in DrainTimers \ timers' :
                  t.delay >= Backoff(task[InFlight(p)].attempts)]_vars

\* C18 as amended: a failed send that leaves a task with k attempts, k in
\* 1..4, starts a drain timer of min(60000, 500 * 2^k) ms, more than the
\* delay it started for the task's failure before; the task stays in the
\* queue until a pass starts, and the pass that takes it is started by the
\* send-now command or by a drain timer, of whatever delay.
C18_BackoffRequestedGrows ==
    [][/\ \A p \in passes :
             (Completed(p) /\ task'[InFlight(p)].attempts \in 1 .. 4) =>
                 LET id == InFlight(p)
                     k == task'[id].attempts
                 IN /\ id \in Range(queue') /\ \A q \in passes' : id \notin Held(q)
                    /\ \E t \in DrainTimers' :
                           /\ t.id = timer'
                           /\ t.delay = Min(60000, 500 * 2 ^ k)
                           /\ k >= 2 => t.delay > Min(60000, 500 * 2 ^ (k - 1))
       /\ \A p \in passes' :
             (StartsNow(p) /\ task[InFlight(p)].attempts >= 1) =>
                 /\ p.tasks = queue
                 /\ \/ SendNow
                    \/ \E t \in DrainTimers : DrainFire(t)]_vars

\* A task that failed once is sent again at the head of a snapshot it
\* shares with a new task, whose debounce firing replaced the backoff timer.
C18_Witness ==
    /\ timers = {}
    /\ \E p \in passes :
          /\ p.tasks = <<1, 2>> /\ InFlight(p) = 1
          /\ task[1].attempts = 1 /\ failures = 1

\* ---------------------------------------------------------------- C19
\* C19: no send of a task starts once a task created later for the same
\* key has started its first send.
C19_NoStaleDelivery ==
    [][\A p \in passes' \ passes :
          \A b \in 1 .. Len(task) :
              (b > InFlight(p) /\ task[b].uri = task[InFlight(p)].uri) =>
                  ~Started(b)]_vars

\* ---------------------------------------------------------------- C20
\* C20: the drain timer a debounce firing starts has delay 0, the one a
\* requeue starts has delay 1000, 2000, 4000 or 8000; no drain timer ever
\* has another delay, so none has the 60000 ms of the cap.
C20_DelaysScheduled ==
    [][/\ Len(task') = Len(task) + 1 =>
             \E t \in DrainTimers' : t.id = timer' /\ t.delay = 0
       /\ (failures' = failures + 1 /\ queue' # queue) =>
             \E t \in DrainTimers' :
                 t.id = timer' /\ t.delay \in {1000, 2000, 4000, 8000}
       /\ \A t \in DrainTimers' :
             t.delay \in {0, 1000, 2000, 4000, 8000} /\ t.delay # 60000]_vars

\* The only task has failed five times: four drain timers were started
\* for it and none after the fifth failure.
C20_Witness ==
    /\ Len(task) = 1 /\ task[1].attempts = 5
    /\ failures = 5 /\ timers = {}

====
